---- MODULE Spec2Model ----
(***************************************************************************)
(* Device communication subsystem of src/pyside/comm_config.py:            *)
(* ESP8266Communicator (WiFi), BluetoothCommunicator and DeviceManager.    *)
(*                                                                         *)
(* One foreground context (the Qt main thread) runs establish_connection,  *)
(* close_connection, send_message and the DeviceManager calls, statement   *)
(* by statement; every successful connect starts one receive_messages      *)
(* thread, which runs interleaved with the foreground.  Signals emitted on *)
(* the main thread reach the DeviceManager slots at once; signals emitted  *)
(* on a receive thread are queued to the main thread's event loop.         *)
(***************************************************************************)
EXTENDS Integers, Sequences, FiniteSets, TLC

\* ------------------------------------------------------------ bounds
\* Sockets ever created (one per connect attempt that reaches the socket call).
MaxConn == 2
\* Data chunks one receive thread reads.
MaxReads == 2
\* Calls of scan_devices.
MaxScans == 2

\* ------------------------------------------------------------ input sets
Ctrl == {"esp", "bt"}

Other(c) == IF c = "esp" THEN "bt" ELSE "esp"

\* Endpoints a connect is called with (ip address, or Bluetooth device name).
Endpoints == {"h1"}

\* Texts passed to send_message, as sequences of characters.
\* "LF" is the newline, "CR" the carriage return, "SP" a blank.
Msgs == {<<"P">>, <<"P", "LF">>}

\* Texts of the send specification: "E" is the two-byte character.
SendMsgs == {<<"P">>, <<"P", "LF">>, <<>>, <<"E">>, <<"SP", "P", "LF", "LF">>}

\* Chunks a recv call returns, as sequences of bytes.  "HI" and "LO" are the
\* lead and the continuation byte of one two-byte UTF-8 character, "E".
FrChunks ==
    { <<"A", "CR">>, <<"LF", "B", "LF">>, <<"A", "LF">>, <<"B">>,
      <<"HI">>, <<"LO", "LF">>, <<"SP", "LF">>, <<"A", "LF", "HI">> }

\* What bluetooth.discover_devices returns: the devices in range.
Devices == {<<>>, <<"d1">>}

\* ------------------------------------------------------------ text
Whitespace == {"LF", "CR", "SP"}

\* bytes.decode('utf-8', errors='ignore'): a lead byte followed by its
\* continuation byte is one character; a lead byte without it, and a
\* continuation byte without a lead, are dropped.
RECURSIVE Decode(_)
Decode(b) ==
    IF b = <<>> THEN <<>>
    ELSE IF Head(b) = "HI"
         THEN IF Len(b) >= 2 /\ b[2] = "LO"
              THEN <<"E">> \o Decode(SubSeq(b, 3, Len(b)))
              ELSE Decode(Tail(b))
         ELSE IF Head(b) = "LO"
              THEN Decode(Tail(b))
              ELSE <<Head(b)>> \o Decode(Tail(b))

\* str.encode('utf-8')
RECURSIVE Encode(_)
Encode(s) ==
    IF s = <<>> THEN <<>>
    ELSE IF Head(s) = "E"
         THEN <<"HI", "LO">> \o Encode(Tail(s))
         ELSE <<Head(s)>> \o Encode(Tail(s))

RECURSIVE LStrip(_)
LStrip(s) ==
    IF s # <<>> /\ Head(s) \in Whitespace THEN LStrip(Tail(s)) ELSE s

RECURSIVE RStrip(_)
RStrip(s) ==
    IF s # <<>> /\ s[Len(s)] \in Whitespace
    THEN RStrip(SubSeq(s, 1, Len(s) - 1))
    ELSE s

\* str.strip()
Strip(s) == RStrip(LStrip(s))

\* '\n' in buffer
HasNewline(s) == \E i \in 1..Len(s) : s[i] = "LF"

FirstNewline(s) == CHOOSE i \in 1..Len(s) : s[i] = "LF" /\ \A j \in 1..(i - 1) : s[j] # "LF"

\* message.endswith('\n')
EndsWithNewline(s) == s # <<>> /\ s[Len(s)] = "LF"

AddNewline_always(message) == message \o <<"LF">>

\* send_message: if not message.endswith('\n'): message += '\n'
AddNewline(message) ==
    IF EndsWithNewline(message) THEN message ELSE message \o <<"LF">>

\* The lines of buffer that a newline ends, stripped, the empty ones left out,
\* and what follows the last newline.
RECURSIVE SplitLines(_)
SplitLines(buffer) ==
    IF ~HasNewline(buffer) THEN [lines |-> <<>>, rest |-> buffer]
    ELSE LET i == FirstNewline(buffer)
             line == SubSeq(buffer, 1, i - 1)
             r == SplitLines(SubSeq(buffer, i + 1, Len(buffer)))
         IN  [lines |-> (IF Strip(line) # <<>> THEN <<Strip(line)>> ELSE <<>>) \o r.lines,
              rest |-> r.rest]

FrameLines_stopempty(buffer) ==
    IF HasNewline(buffer) /\ Strip(SubSeq(buffer, 1, FirstNewline(buffer) - 1)) = <<>>
    THEN [lines |-> <<>>, rest |-> buffer]
    ELSE SplitLines(buffer)

FrameLines_norest(buffer) == [lines |-> SplitLines(buffer).lines, rest |-> <<>>]

\* receive_messages: while '\n' in buffer: line, buffer = buffer.split('\n', 1);
\* if line.strip(): emit line.strip().  The lines emitted and the buffer left.
FrameLines(buffer) == SplitLines(buffer)

RECURSIVE Flatten(_)
Flatten(ss) == IF ss = <<>> THEN <<>> ELSE Head(ss) \o Flatten(Tail(ss))

\* ------------------------------------------------------------ events
\* msgReceived.emit(f"[{timestamp}] [category] text")
Msg(cat, text) == [k |-> "msg", cat |-> cat, on |-> FALSE, text |-> text, ts |-> TRUE]

\* msgReceived.emit("[category] text"): the messages built without a timestamp.
MsgNoStamp(cat, text) == [k |-> "msg", cat |-> cat, on |-> FALSE, text |-> text, ts |-> FALSE]

\* connStatusChanged.emit(connected, info)
Status(on, info) == [k |-> "status", cat |-> "", on |-> on, text |-> info, ts |-> FALSE]

\* devicesFound.emit(device_list)
DevicesFound(devices) == [k |-> "found", cat |-> "", on |-> FALSE, text |-> devices, ts |-> FALSE]

\* f"ESP8266: {ip_address}" and f"蓝牙: {device_name}"
Label(c, ep) == IF c = "esp" THEN <<"ESP8266", ep>> ELSE <<"BT", ep>>

NoLabel == <<>>

BtUnavailableLabel == <<"BT-unavailable">>

\* ------------------------------------------------------------ state
VARIABLES
    bt_available,   \* BLUETOOTH_AVAILABLE
    socket,         \* self.socket of each communicator: a socket id, 0 for None
    is_connected,   \* self.is_connected of each communicator
    endpoint,       \* self.ip_address / self.device_name
    socks,          \* the sockets created so far, by id: whose, and "new" (not
                    \* connected), "up", "eof" (peer closed), "reset" or "closed"
    threads,        \* the receive_messages threads started so far
    fg,             \* the foreground call in progress, or the last one made
    dm,             \* DeviceManager: _current_device_type/_name, last view emitted
    queue,          \* status signals of receive threads, queued to the main thread
    scans           \* the scan_devices calls made so far: the worker's position
                    \* and the signals the call and its worker have emitted

vars == <<bt_available, socket, is_connected, endpoint, socks, threads, fg, dm, queue, scans>>

NoSock == 0

Idle == fg.pc = "idle"

Alive(i) == threads[i].pc # "done"

AliveOf(c) == {i \in 1..Len(threads) : threads[i].c = c /\ Alive(i)}

get_current_device_info_esp_only(conn, ep) ==
    IF conn["esp"]
    THEN [type |-> "ESP8266", name |-> Label("esp", ep["esp"]), connected |-> TRUE]
    ELSE [type |-> "", name |-> <<"none">>, connected |-> FALSE]

get_current_device_info_bt_first(conn, ep) ==
    IF conn["bt"]
    THEN [type |-> "Bluetooth", name |-> Label("bt", ep["bt"]), connected |-> TRUE]
    ELSE IF conn["esp"]
         THEN [type |-> "ESP8266", name |-> Label("esp", ep["esp"]), connected |-> TRUE]
         ELSE [type |-> "", name |-> <<"none">>, connected |-> FALSE]

\* DeviceManager.get_current_device_info
get_current_device_info(conn, ep) ==
    IF conn["esp"]
    THEN [type |-> "ESP8266", name |-> Label("esp", ep["esp"]), connected |-> TRUE]
    ELSE IF conn["bt"]
         THEN [type |-> "Bluetooth", name |-> Label("bt", ep["bt"]), connected |-> TRUE]
         ELSE [type |-> "", name |-> <<"none">>, connected |-> FALSE]

\* DeviceManager.on_esp8266_status_changed / on_bluetooth_status_changed, run with
\* the communicators' fields as they are when the slot runs.
on_status_changed(d, c, connected, info, conn, ep) ==
    [type |-> IF connected THEN (IF c = "esp" THEN "ESP8266" ELSE "Bluetooth")
              ELSE IF ~conn[Other(c)] THEN "" ELSE d.type,
     name |-> IF connected THEN info
              ELSE IF ~conn[Other(c)] THEN NoLabel ELSE d.name,
     view |-> get_current_device_info(conn, ep),
     relayed |-> d.relayed]

\* DeviceManager.on_message_received, the slot of both communicators'
\* msgReceived: its body is "pass".  relayed is what the DeviceManager has
\* passed on to its own observers: it has no message signal of its own.
on_message_received(d, message) == d

\* A communicator's emits reaching the DeviceManager's slots in order: the
\* message slot for a message, the status slot for a status.
RECURSIVE dm_slots(_, _, _, _, _)
dm_slots(d, c, events, conn, ep) ==
    IF events = <<>> THEN d
    ELSE dm_slots(IF Head(events).k = "msg"
                  THEN on_message_received(d, Head(events))
                  ELSE on_status_changed(d, c, Head(events).on, Head(events).text, conn, ep),
                  c, Tail(events), conn, ep)

NoView == [type |-> "", name |-> <<"unset">>, connected |-> FALSE]

FgInit ==
    [op |-> "none", c |-> "esp", pc |-> "idle", msg |-> <<>>, ret |-> FALSE,
     ev |-> <<>>, wrote |-> <<>>, routed |-> "none",
     pre |-> [c \in Ctrl |-> FALSE]]

Init ==
    /\ bt_available \in BOOLEAN
    /\ socket = [c \in Ctrl |-> NoSock]
    /\ is_connected = [c \in Ctrl |-> FALSE]
    /\ endpoint = [c \in Ctrl |-> ""]
    /\ socks = <<>>
    /\ threads = <<>>
    /\ fg = FgInit
    /\ dm = [type |-> "", name |-> NoLabel, view |-> NoView, relayed |-> <<>>]
    /\ queue = <<>>
    /\ scans = <<>>

\* ------------------------------------------------------------ helpers
\* A foreground call as it starts: what it was called with, and the
\* communicators' is_connected at the call.
FgCall(op, c, pc, msg) ==
    [op |-> op, c |-> c, pc |-> pc, msg |-> msg, ret |-> FALSE,
     ev |-> <<>>, wrote |-> <<>>, routed |-> "none",
     pre |-> is_connected]

\* self.socket.close() of close_connection and of the except branch of
\* establish_connection, under "if self.socket:".
CloseSock(c) ==
    IF socket[c] # NoSock
    THEN [socks EXCEPT ![socket[c]].st = "closed"]
    ELSE socks

ConnectedEvents(c, ep) == <<Msg("System", <<"connected", ep>>), Status(TRUE, Label(c, ep))>>

ConnectFailedEvents == <<Msg("Error", <<"connect failed">>), Status(FALSE, NoLabel)>>

\* close_connection: the two emits that end it, whatever the state was.
DisconnectedEvents == <<Msg("System", <<"disconnected">>), Status(FALSE, NoLabel)>>

UnavailableEvents ==
    <<MsgNoStamp("Hint", <<"bluetooth unavailable">>), Status(FALSE, BtUnavailableLabel)>>

\* A receive thread that has returned: its locals are gone.
Finished(c) ==
    [c |-> c, pc |-> "done", buf |-> <<>>, sock |-> NoSock, own |-> NoSock,
     rx |-> <<>>, out |-> <<>>, ev |-> <<>>]

\* The thread establish_connection starts: own is the socket of the connection
\* it is started for, the one this call has made.
NewThread(c) ==
    [c |-> c, pc |-> "check", buf |-> <<>>, sock |-> NoSock, own |-> Len(socks),
     rx |-> <<>>, out |-> <<>>, ev |-> <<>>]

\* ------------------------------------------------------------ establish_connection
available_always(c) == TRUE

\* "if not BLUETOOTH_AVAILABLE" of BluetoothCommunicator (is_available());
\* ESP8266Communicator has no such test.
available(c) == c = "bt" => bt_available

\* BluetoothCommunicator only: if not BLUETOOTH_AVAILABLE: two emits, return False.
establish_connection_unavailable(c, ep) ==
    /\ Idle
    /\ ~available(c)
    /\ fg' = [FgCall("connect", c, "done", <<ep>>) EXCEPT !.ev = UnavailableEvents]
    /\ dm' = dm_slots(dm, c, UnavailableEvents, is_connected, endpoint)
    /\ UNCHANGED <<bt_available, socket, is_connected, endpoint, socks, threads, queue, scans>>

\* The call, up to self.socket = socket.socket(...): the endpoint is stored and
\* the new socket replaces whatever self.socket held.  Nothing looks at
\* self.is_connected first.
establish_connection(c, ep) ==
    /\ Idle
    /\ available(c)
    /\ Len(socks) < MaxConn
    /\ endpoint' = [endpoint EXCEPT ![c] = ep]
    /\ socks' = Append(socks, [c |-> c, st |-> "new"])
    /\ socket' = [socket EXCEPT ![c] = Len(socks) + 1]
    /\ fg' = FgCall("connect", c, "co_conn", <<ep>>)
    /\ UNCHANGED <<bt_available, is_connected, threads, dm, queue, scans>>

\* self.socket.connect(...) succeeds.
co_conn_ok ==
    /\ fg.pc = "co_conn"
    /\ socket[fg.c] # NoSock
    /\ socks[socket[fg.c]].st = "new"
    /\ socks' = [socks EXCEPT ![socket[fg.c]].st = "up"]
    /\ fg' = [fg EXCEPT !.pc = "co_flag"]
    /\ UNCHANGED <<bt_available, socket, is_connected, endpoint, threads, dm, queue, scans>>

\* self.socket.connect(...) raises: no listener, timeout, or self.socket set to
\* None or closed by a receive thread's close_connection meanwhile.  The except
\* branch emits the error message and connStatusChanged(False, "").
co_conn_fail ==
    /\ fg.pc = "co_conn"
    /\ fg' = [fg EXCEPT !.ev = @ \o ConnectFailedEvents, !.pc = "co_fclose"]
    /\ dm' = dm_slots(dm, fg.c, ConnectFailedEvents, is_connected, endpoint)
    /\ UNCHANGED <<bt_available, socket, is_connected, endpoint, socks, threads, queue, scans>>

\* self.is_connected = True; self.receive_thread = Thread(...); start()
co_flag ==
    /\ fg.pc = "co_flag"
    /\ is_connected' = [is_connected EXCEPT ![fg.c] = TRUE]
    /\ threads' = Append(threads, NewThread(fg.c))
    /\ fg' = [fg EXCEPT !.pc = "co_emit"]
    /\ UNCHANGED <<bt_available, socket, endpoint, socks, dm, queue, scans>>

\* msgReceived.emit(connected); connStatusChanged.emit(True, label); return True
co_emit ==
    /\ fg.pc = "co_emit"
    /\ fg' = [fg EXCEPT !.ev = @ \o ConnectedEvents(fg.c, endpoint[fg.c]),
                        !.ret = TRUE, !.pc = "done"]
    /\ dm' = dm_slots(dm, fg.c, ConnectedEvents(fg.c, endpoint[fg.c]), is_connected, endpoint)
    /\ UNCHANGED <<bt_available, socket, is_connected, endpoint, socks, threads, queue, scans>>

\* except branch: if self.socket: self.socket.close() ... else return False
co_fclose ==
    /\ fg.pc = "co_fclose"
    /\ socks' = CloseSock(fg.c)
    /\ fg' = [fg EXCEPT !.pc = IF socket[fg.c] # NoSock THEN "co_fnone" ELSE "done",
                        !.ret = FALSE]
    /\ UNCHANGED <<bt_available, socket, is_connected, endpoint, threads, dm, queue, scans>>

\* self.socket = None; return False
co_fnone ==
    /\ fg.pc = "co_fnone"
    /\ socket' = [socket EXCEPT ![fg.c] = NoSock]
    /\ fg' = [fg EXCEPT !.pc = "done", !.ret = FALSE]
    /\ UNCHANGED <<bt_available, is_connected, endpoint, socks, threads, dm, queue, scans>>

\* ------------------------------------------------------------ close_connection
\* The call and its first statement: if self.socket: self.socket.close()
close_connection(c) ==
    /\ Idle
    /\ socks' = CloseSock(c)
    /\ fg' = FgCall("close", c, IF socket[c] # NoSock THEN "cl_none" ELSE "cl_flag", <<>>)
    /\ UNCHANGED <<bt_available, socket, is_connected, endpoint, threads, dm, queue, scans>>

\* The same statement, reached from send_message's except branch and as
\* disconnect_all's second close.
cl_close ==
    /\ fg.pc = "cl_close"
    /\ socks' = CloseSock(fg.c)
    /\ fg' = [fg EXCEPT !.pc = IF socket[fg.c] # NoSock THEN "cl_none" ELSE "cl_flag"]
    /\ UNCHANGED <<bt_available, socket, is_connected, endpoint, threads, dm, queue, scans>>

\* self.socket = None
cl_none ==
    /\ fg.pc = "cl_none"
    /\ socket' = [socket EXCEPT ![fg.c] = NoSock]
    /\ fg' = [fg EXCEPT !.pc = "cl_flag"]
    /\ UNCHANGED <<bt_available, is_connected, endpoint, socks, threads, dm, queue, scans>>

cl_flag_esp_only ==
    /\ fg.pc = "cl_flag"
    /\ is_connected' = [is_connected EXCEPT ![fg.c] = FALSE]
    /\ fg' = [fg EXCEPT !.ev = @ \o DisconnectedEvents, !.pc = "done"]
    /\ dm' = dm_slots(dm, fg.c, DisconnectedEvents, is_connected', endpoint)
    /\ UNCHANGED <<bt_available, socket, endpoint, socks, threads, queue, scans>>

\* self.is_connected = False; msgReceived.emit(disconnected);
\* connStatusChanged.emit(False, "").  disconnect_all goes on to the Bluetooth
\* communicator's close_connection.
cl_flag ==
    /\ fg.pc = "cl_flag"
    /\ is_connected' = [is_connected EXCEPT ![fg.c] = FALSE]
    /\ fg' = IF fg.op = "disconnect_all" /\ fg.c = "esp"
             THEN [fg EXCEPT !.ev = @ \o DisconnectedEvents,
                             !.c = "bt", !.pc = "cl_close"]
             ELSE [fg EXCEPT !.ev = @ \o DisconnectedEvents,
                             !.pc = "done"]
    /\ dm' = dm_slots(dm, fg.c, DisconnectedEvents, is_connected', endpoint)
    /\ UNCHANGED <<bt_available, socket, endpoint, socks, threads, queue, scans>>

\* ------------------------------------------------------------ send_message
may_send_always(c) == TRUE

\* send_message: "if not self.is_connected: return False"
may_send(c) == is_connected[c]

\* The call and its first statement.
send_message(c, message) ==
    /\ Idle
    /\ fg' = IF may_send(c)
             THEN FgCall("send", c, "se_write", message)
             ELSE FgCall("send", c, "done", message)
    /\ UNCHANGED <<bt_available, socket, is_connected, endpoint, socks, threads, dm, queue, scans>>

\* The same statement when DeviceManager.send_message made the call.
se_check ==
    /\ fg.pc = "se_check"
    /\ fg' = IF may_send(fg.c)
             THEN [fg EXCEPT !.pc = "se_write"]
             ELSE [fg EXCEPT !.ret = FALSE, !.pc = "done"]
    /\ UNCHANGED <<bt_available, socket, is_connected, endpoint, socks, threads, dm, queue, scans>>

\* What self.socket.send can do: it raises on None (AttributeError), on a socket
\* closed here or not connected, and after a reset; after the peer's close a
\* write may still be accepted.
SendOutcomes(c) ==
    LET s == socket[c] IN
    IF s = NoSock THEN {FALSE}
    ELSE IF socks[s].st \in {"closed", "new", "reset"} THEN {FALSE}
    ELSE IF socks[s].st = "eof" THEN {TRUE, FALSE}
    ELSE {TRUE}

\* message += '\n' unless it ends with one; self.socket.send(message.encode('utf-8'))
se_write_ok ==
    /\ fg.pc = "se_write"
    /\ TRUE \in SendOutcomes(fg.c)
    /\ fg' = [fg EXCEPT !.wrote = Append(@, [sock |-> socket[fg.c],
                                            bytes |-> Encode(AddNewline(fg.msg))]),
                        !.pc = "se_emit"]
    /\ UNCHANGED <<bt_available, socket, is_connected, endpoint, socks, threads, dm, queue, scans>>

se_write_fail_noclose ==
    /\ fg.pc = "se_write"
    /\ FALSE \in SendOutcomes(fg.c)
    /\ fg' = [fg EXCEPT !.ev = Append(@, Msg("Error", <<"send failed">>)),
                        !.ret = FALSE, !.pc = "done"]
    /\ dm' = on_message_received(dm, Msg("Error", <<"send failed">>))
    /\ UNCHANGED <<bt_available, socket, is_connected, endpoint, socks, threads, queue, scans>>

se_write_fail_raise ==
    /\ fg.pc = "se_write"
    /\ FALSE \in SendOutcomes(fg.c)
    /\ fg' = [fg EXCEPT !.ret = FALSE, !.pc = "done"]
    /\ UNCHANGED <<bt_available, socket, is_connected, endpoint, socks, threads, dm, queue, scans>>

se_write_fail_retry ==
    /\ fg.pc = "se_write"
    /\ FALSE \in SendOutcomes(fg.c)
    /\ fg' = IF fg.op = "dm_send" /\ is_connected[Other(fg.c)]
             THEN [fg EXCEPT !.ev = Append(@, Msg("Error", <<"send failed">>)),
                             !.c = Other(fg.c), !.pc = "se_check"]
             ELSE [fg EXCEPT !.ev = Append(@, Msg("Error", <<"send failed">>)),
                             !.ret = FALSE, !.pc = "cl_close"]
    /\ dm' = on_message_received(dm, Msg("Error", <<"send failed">>))
    /\ UNCHANGED <<bt_available, socket, is_connected, endpoint, socks, threads, queue, scans>>

\* self.socket.send raises; except: msgReceived.emit(error), then
\* self.close_connection() and return False
se_write_fail ==
    /\ fg.pc = "se_write"
    /\ FALSE \in SendOutcomes(fg.c)
    /\ fg' = [fg EXCEPT !.ev = Append(@, Msg("Error", <<"send failed">>)),
                        !.ret = FALSE, !.pc = "cl_close"]
    /\ dm' = on_message_received(dm, Msg("Error", <<"send failed">>))
    /\ UNCHANGED <<bt_available, socket, is_connected, endpoint, socks, threads, queue, scans>>

se_emit_untrimmed ==
    /\ fg.pc = "se_emit"
    /\ fg' = [fg EXCEPT !.ev = Append(@, Msg("Sent", AddNewline(fg.msg))),
                        !.ret = TRUE, !.pc = "done"]
    /\ dm' = on_message_received(dm, Msg("Sent", AddNewline(fg.msg)))
    /\ UNCHANGED <<bt_available, socket, is_connected, endpoint, socks, threads, queue, scans>>

\* msgReceived.emit(sent message.strip()); return True
se_emit ==
    /\ fg.pc = "se_emit"
    /\ fg' = [fg EXCEPT !.ev = Append(@, Msg("Sent", Strip(AddNewline(fg.msg)))),
                        !.ret = TRUE, !.pc = "done"]
    /\ dm' = on_message_received(dm, Msg("Sent", Strip(AddNewline(fg.msg))))
    /\ UNCHANGED <<bt_available, socket, is_connected, endpoint, socks, threads, queue, scans>>

\* ------------------------------------------------------------ DeviceManager
dm_target_bt_first(conn) ==
    IF conn["bt"] THEN "bt" ELSE IF conn["esp"] THEN "esp" ELSE "none"

\* DeviceManager.send_message: which communicator the message is handed to.
dm_target(conn) ==
    IF conn["esp"] THEN "esp" ELSE IF conn["bt"] THEN "bt" ELSE "none"

\* DeviceManager.send_message: the call and the choice of the communicator, whose
\* send_message then starts with its own look at is_connected.
dm_send_message(message) ==
    /\ Idle
    /\ LET t == dm_target(is_connected) IN
       fg' = IF t = "none"
             THEN FgCall("dm_send", "esp", "done", message)
             ELSE [FgCall("dm_send", t, "se_check", message) EXCEPT !.routed = t]
    /\ UNCHANGED <<bt_available, socket, is_connected, endpoint, socks, threads, dm, queue, scans>>

\* DeviceManager.disconnect_all: esp8266.close_connection(), then
\* bluetooth.close_connection().  The call and the first close's first statement.
disconnect_all ==
    /\ Idle
    /\ socks' = CloseSock("esp")
    /\ fg' = FgCall("disconnect_all", "esp",
                    IF socket["esp"] # NoSock THEN "cl_none" ELSE "cl_flag", <<>>)
    /\ UNCHANGED <<bt_available, socket, is_connected, endpoint, threads, dm, queue, scans>>

\* The main thread's event loop runs the slots queued by a receive thread's
\* close_connection: the message slot, then the status slot.
deliver_status ==
    /\ Idle
    /\ queue # <<>>
    /\ dm' = on_status_changed(on_message_received(dm, Msg("System", <<"disconnected">>)),
                               Head(queue).c, Head(queue).on, Head(queue).info,
                               is_connected, endpoint)
    /\ queue' = Tail(queue)
    /\ UNCHANGED <<bt_available, socket, is_connected, endpoint, socks, threads, fg, scans>>

\* ------------------------------------------------------------ receive_messages
\* while self.is_connected and self.socket:
rm_check(i) ==
    /\ threads[i].pc = "check"
    /\ threads' = [threads EXCEPT ![i].pc =
                      IF is_connected[threads[i].c] /\ socket[threads[i].c] # NoSock
                      THEN "recv" ELSE "exit"]
    /\ UNCHANGED <<bt_available, socket, is_connected, endpoint, socks, fg, dm, queue, scans>>

\* self.socket.recv(1024): the call is made on the socket self.socket names now;
\* on None it raises (AttributeError), which the except branch takes.
rm_recv(i) ==
    /\ threads[i].pc = "recv"
    /\ threads' = IF socket[threads[i].c] = NoSock
                  THEN [threads EXCEPT ![i].pc = "err"]
                  ELSE [threads EXCEPT ![i].pc = "blocked", ![i].sock = socket[threads[i].c]]
    /\ UNCHANGED <<bt_available, socket, is_connected, endpoint, socks, fg, dm, queue, scans>>

\* recv returns data: decode; "if not data: break" when the decoded text is
\* empty; else buffer += data, then the framing loop with its emits.
rm_data(i, chunk) ==
    /\ threads[i].pc = "blocked"
    /\ socks[threads[i].sock].st = "up"
    /\ Len(threads[i].rx) < MaxReads
    /\ LET f == FrameLines(threads[i].buf \o Decode(chunk)) IN
       threads' = [threads EXCEPT ![i].pc = IF Decode(chunk) = <<>> THEN "exit" ELSE "check",
                                  ![i].sock = NoSock,
                                  ![i].rx = Append(@, chunk),
                                  ![i].buf = f.rest,
                                  ![i].out = @ \o f.lines]
    /\ UNCHANGED <<bt_available, socket, is_connected, endpoint, socks, fg, dm, queue, scans>>

\* recv times out (also on a socket closed under it).  ESP8266Communicator has
\* "except socket.timeout: continue"; BluetoothCommunicator has only
\* "except Exception", which takes the timeout as an error.
rm_timeout(i) ==
    /\ threads[i].pc = "blocked"
    /\ socks[threads[i].sock].st \in {"closed", "up", "new"}
    /\ threads' = [threads EXCEPT ![i].pc = IF threads[i].c = "esp" THEN "check" ELSE "err",
                                  ![i].sock = NoSock]
    /\ UNCHANGED <<bt_available, socket, is_connected, endpoint, socks, fg, dm, queue, scans>>

\* recv returns b'' (the peer closed): break
rm_eof(i) ==
    /\ threads[i].pc = "blocked"
    /\ socks[threads[i].sock].st = "eof"
    /\ threads' = [threads EXCEPT ![i].pc = "exit", ![i].sock = NoSock]
    /\ UNCHANGED <<bt_available, socket, is_connected, endpoint, socks, fg, dm, queue, scans>>

\* recv raises: the socket was closed here, is not connected, or was reset.
rm_error(i) ==
    /\ threads[i].pc = "blocked"
    /\ socks[threads[i].sock].st \in {"closed", "reset", "new"}
    /\ threads' = [threads EXCEPT ![i].pc = "err", ![i].sock = NoSock]
    /\ UNCHANGED <<bt_available, socket, is_connected, endpoint, socks, fg, dm, queue, scans>>

\* except Exception: if self.is_connected: msgReceived.emit(error); break
rm_except(i) ==
    /\ threads[i].pc = "err"
    /\ threads' = [threads EXCEPT ![i].pc = "exit",
                                  ![i].ev = IF is_connected[threads[i].c]
                                            THEN Append(@, Msg("Error", <<"receive failed">>))
                                            ELSE @]
    /\ UNCHANGED <<bt_available, socket, is_connected, endpoint, socks, fg, dm, queue, scans>>

\* after the loop: if self.is_connected: self.close_connection(), else return
rm_exit(i) ==
    /\ threads[i].pc = "exit"
    /\ threads' = [threads EXCEPT ![i] = IF is_connected[threads[i].c]
                                         THEN [@ EXCEPT !.pc = "cl_close"]
                                         ELSE Finished(@.c)]
    /\ UNCHANGED <<bt_available, socket, is_connected, endpoint, socks, fg, dm, queue, scans>>

\* close_connection on the receive thread, statement by statement as on the
\* foreground; its status signal is queued to the main thread.
rm_cl_close(i) ==
    /\ threads[i].pc = "cl_close"
    /\ socks' = CloseSock(threads[i].c)
    /\ threads' = [threads EXCEPT ![i].pc = IF socket[threads[i].c] # NoSock
                                            THEN "cl_none" ELSE "cl_flag"]
    /\ UNCHANGED <<bt_available, socket, is_connected, endpoint, fg, dm, queue, scans>>

rm_cl_none(i) ==
    /\ threads[i].pc = "cl_none"
    /\ socket' = [socket EXCEPT ![threads[i].c] = NoSock]
    /\ threads' = [threads EXCEPT ![i].pc = "cl_flag"]
    /\ UNCHANGED <<bt_available, is_connected, endpoint, socks, fg, dm, queue, scans>>

\* self.is_connected = False, the two emits, and the thread returns.
rm_cl_flag(i) ==
    /\ threads[i].pc = "cl_flag"
    /\ is_connected' = [is_connected EXCEPT ![threads[i].c] = FALSE]
    /\ threads' = [threads EXCEPT ![i] = Finished(@.c)]
    /\ queue' = Append(queue, [c |-> threads[i].c, on |-> FALSE, info |-> NoLabel])
    /\ UNCHANGED <<bt_available, socket, endpoint, socks, fg, dm, scans>>

\* ------------------------------------------------------------ scan_devices
\* BluetoothCommunicator.scan_devices, called on the main thread.  Without
\* Bluetooth: devicesFound.emit([]), a message without timestamp, return.
\* With it: the _scan_worker thread is started.
scan_devices ==
    /\ Idle
    /\ Len(scans) < MaxScans
    /\ IF ~available("bt")
       THEN /\ scans' = Append(scans,
                   [pc |-> "done", thread |-> FALSE,
                    ev |-> <<DevicesFound(<<>>),
                             MsgNoStamp("Hint", <<"bluetooth unavailable">>)>>])
            /\ dm' = on_message_received(dm, MsgNoStamp("Hint", <<"bluetooth unavailable">>))
       ELSE /\ scans' = Append(scans, [pc |-> "discover", thread |-> TRUE, ev |-> <<>>])
            /\ dm' = dm
    /\ UNCHANGED <<bt_available, socket, is_connected, endpoint, socks, threads, fg, queue>>

\* _scan_worker: discover_devices returns; devicesFound.emit(device_list)
sc_found(j, devices) ==
    /\ scans[j].pc = "discover"
    /\ scans' = [scans EXCEPT ![j].pc = "done", ![j].ev = Append(@, DevicesFound(devices))]
    /\ UNCHANGED <<bt_available, socket, is_connected, endpoint, socks, threads, fg, dm, queue>>

\* _scan_worker: discover_devices raises; except: a message without timestamp,
\* and no devicesFound.
sc_fail(j) ==
    /\ scans[j].pc = "discover"
    /\ scans' = [scans EXCEPT ![j].pc = "done",
                              ![j].ev = Append(@, MsgNoStamp("Error", <<"scan failed">>))]
    /\ UNCHANGED <<bt_available, socket, is_connected, endpoint, socks, threads, fg, dm, queue>>

\* ------------------------------------------------------------ the remote device
\* The peer closes the connection: recv returns b'' from now on.
remote_close(s) ==
    /\ socks[s].st = "up"
    /\ socks' = [socks EXCEPT ![s].st = "eof"]
    /\ UNCHANGED <<bt_available, socket, is_connected, endpoint, threads, fg, dm, queue, scans>>

\* The connection breaks: recv and send raise from now on.
remote_reset(s) ==
    /\ socks[s].st = "up"
    /\ socks' = [socks EXCEPT ![s].st = "reset"]
    /\ UNCHANGED <<bt_available, socket, is_connected, endpoint, threads, fg, dm, queue, scans>>

\* ------------------------------------------------------------ specifications
\* The foreground call returns.  "done" is the instant of the return, at which
\* the call's result, its events and its writes are read off; the program's state
\* is the same before and after, so nothing else is interleaved here.
fg_return ==
    /\ fg.pc = "done"
    /\ fg' = FgInit
    /\ UNCHANGED <<bt_available, socket, is_connected, endpoint, socks, threads, dm, queue, scans>>

\* The statements of establish_connection and close_connection in progress.
ConnSteps ==
    \/ co_conn_ok \/ co_conn_fail \/ co_flag \/ co_emit \/ co_fclose \/ co_fnone
    \/ cl_none \/ cl_flag

\* The statements of send_message in progress.
SendSteps ==
    \/ se_write_ok \/ se_write_fail \/ se_emit \/ cl_close

\* The statements of receive thread i that take no data from the transport.
Receiver(i) ==
    \/ rm_check(i) \/ rm_recv(i)
    \/ rm_timeout(i) \/ rm_eof(i) \/ rm_error(i) \/ rm_except(i) \/ rm_exit(i)
    \/ rm_cl_close(i) \/ rm_cl_none(i) \/ rm_cl_flag(i)

\* The foreground keeps to one communicator once it has opened a socket.
Focus(c) == \A s \in 1..Len(socks) : socks[s].c = c

\* One communicator (of either kind) used directly, as the connection pages do:
\* connects and closes in any order, also a connect while connected; the device
\* may close the connection, and sends nothing.
Next ==
    \/ fg_return
    \/ /\ fg.pc # "done"
       /\ \/ \E c \in Ctrl, ep \in Endpoints : establish_connection_unavailable(c, ep)
          \/ \E c \in Ctrl, ep \in Endpoints : Focus(c) /\ establish_connection(c, ep)
          \/ \E c \in Ctrl : Focus(c) /\ close_connection(c)
          \/ ConnSteps
          \/ deliver_status
          \/ \E i \in 1..Len(threads) : Receiver(i)
          \/ \E s \in 1..Len(socks) : remote_close(s)

Spec == Init /\ [][Next]_vars

\* Scheduling: every receive thread started (a daemon thread of the
\* interpreter) keeps being run, and a call the main thread is in runs on to
\* its return.  The fairness is strong because a thread's step is disabled at
\* the instants of the foreground's returns, which starve no thread.
ThreadsRun ==
    \A i \in 1..MaxConn :
        SF_vars(fg.pc # "done" /\ i <= Len(threads) /\ Receiver(i))

CallsReturn == WF_vars(fg_return \/ (fg.pc # "done" /\ ConnSteps))

SpecLive == Spec /\ ThreadsRun /\ CallsReturn

\* One connection of one communicator (of either kind) and the sends on it:
\* the device may close or reset the connection, and sends nothing.
NextSend ==
    \/ fg_return
    \/ /\ fg.pc # "done"
       /\ \/ \E c \in Ctrl, ep \in Endpoints : socks = <<>> /\ establish_connection(c, ep)
          \/ \E c \in Ctrl : Focus(c) /\ close_connection(c)
          \/ \E c \in Ctrl, m \in SendMsgs : Focus(c) /\ send_message(c, m)
          \/ ConnSteps
          \/ SendSteps
          \/ deliver_status
          \/ \E i \in 1..Len(threads) : Receiver(i)
          \/ \E s \in 1..Len(socks) : remote_close(s) \/ remote_reset(s)

SpecSend == Init /\ [][NextSend]_vars

\* No socket has been opened for communicator c yet.
Fresh(c) == \A s \in 1..Len(socks) : socks[s].c # c

\* Both communicators under the DeviceManager, each connected at most once:
\* connects and closes of either, DeviceManager.send_message and disconnect_all;
\* the devices may close or reset their connections, and send nothing.
NextDM ==
    \/ fg_return
    \/ /\ fg.pc # "done"
       /\ \/ \E c \in Ctrl, ep \in Endpoints : establish_connection_unavailable(c, ep)
          \/ \E c \in Ctrl, ep \in Endpoints : Fresh(c) /\ establish_connection(c, ep)
          \/ \E c \in Ctrl : close_connection(c)
          \/ \E m \in Msgs : dm_send_message(m)
          \/ se_check
          \/ disconnect_all
          \/ ConnSteps
          \/ SendSteps
          \/ deliver_status
          \/ \E i \in 1..Len(threads) : Receiver(i)
          \/ \E s \in 1..Len(socks) : remote_close(s) \/ remote_reset(s)

SpecDM == Init /\ [][NextDM]_vars

\* One WiFi connection and what its receive thread makes of the chunks it reads.
NextFrame ==
    \/ fg_return
    \/ /\ fg.pc # "done"
       /\ \/ \E ep \in Endpoints : socks = <<>> /\ establish_connection("esp", ep)
          \/ co_conn_ok \/ co_conn_fail \/ co_flag \/ co_emit \/ co_fclose \/ co_fnone
          \/ \E i \in 1..Len(threads) : rm_check(i) \/ rm_recv(i) \/ rm_timeout(i)
          \/ \E i \in 1..Len(threads), chunk \in FrChunks : rm_data(i, chunk)
          \/ \E i \in 1..Len(threads) :
                rm_exit(i) \/ rm_cl_close(i) \/ rm_cl_none(i) \/ rm_cl_flag(i)
          \/ deliver_status

SpecFrame == Init /\ [][NextFrame]_vars

\* The Bluetooth page's scans next to the connections: both communicators, each
\* connected at most once, with or without Bluetooth on the host.
NextScan ==
    \/ fg_return
    \/ /\ fg.pc # "done"
       /\ \/ \E c \in Ctrl, ep \in Endpoints : establish_connection_unavailable(c, ep)
          \/ \E c \in Ctrl, ep \in Endpoints : Fresh(c) /\ establish_connection(c, ep)
          \/ \E c \in Ctrl : close_connection(c)
          \/ ConnSteps
          \/ deliver_status
          \/ \E i \in 1..Len(threads) : Receiver(i)
          \/ \E s \in 1..Len(socks) : remote_close(s)
          \/ scan_devices
          \/ \E j \in 1..Len(scans), devices \in Devices : sc_found(j, devices)
          \/ \E j \in 1..Len(scans) : sc_fail(j)

SpecScan == Init /\ [][NextScan]_vars

\* What the device of the s-th connection sends: the first an unfinished line,
\* "B" without a newline, the later ones the line "A".
DeviceSends(s) == IF s = 1 THEN {<<"B">>} ELSE {<<"A", "LF">>}

\* The WiFi communicator connected, closed and connected again, in any order,
\* with devices that send: what the receive threads make of the bytes.
NextRebuf ==
    \/ fg_return
    \/ /\ fg.pc # "done"
       /\ \/ \E ep \in Endpoints : establish_connection("esp", ep)
          \/ close_connection("esp")
          \/ ConnSteps
          \/ deliver_status
          \/ \E i \in 1..Len(threads) : Receiver(i)
          \/ \E i \in 1..Len(threads) :
                \E chunk \in DeviceSends(threads[i].sock) : rm_data(i, chunk)
          \/ \E s \in 1..Len(socks) : remote_close(s)

SpecRebuf == Init /\ [][NextRebuf]_vars

\* ------------------------------------------------------------ claims
\* A foreground call of the given kind has just returned.
Returned(op) == fg.pc = "done" /\ fg.op = op

\* C1: close() on a communicator that is already Disconnected leaves it
\* Disconnected with no transport and emits no status-changed event and no
\* message event.
C1_RedundantCloseIsSilent ==
    (Returned("close") /\ ~fg.pre[fg.c])
        => (~is_connected[fg.c] /\ socket[fg.c] = NoSock /\ fg.ev = <<>>)

\* A connect called on a Disconnected communicator has returned failure after
\* its transport connect was attempted (not the Bluetooth-unavailable return).
FailedConnectReturned ==
    /\ Returned("connect")
    /\ ~fg.pre[fg.c]
    /\ ~fg.ret
    /\ ~(fg.c = "bt" /\ ~bt_available)

\* C2: a connect from Disconnected whose transport connect fails returns failure,
\* leaves the communicator Disconnected with the socket closed and discarded,
\* emits exactly one Error message and one status-changed(False), and leaves no
\* receive loop of that communicator running.
C2_FailedConnect ==
    FailedConnectReturned
        => /\ ~is_connected[fg.c]
           /\ socket[fg.c] = NoSock
           /\ \A s \in 1..Len(socks) : socks[s].c = fg.c => socks[s].st = "closed"
           /\ fg.ev = ConnectFailedEvents
           /\ AliveOf(fg.c) = {}

\* C3: the bytes send_message writes are the text followed by exactly one
\* newline when the text does not end with a newline, and the text unmodified
\* when it does; "P" and "P\n" are both written as "P\n"; one write per send.
C3_SendAppendsOneNewline ==
    fg.op = "send"
        => /\ Len(fg.wrote) <= 1
           /\ fg.pc = "se_emit" => Len(fg.wrote) = 1
           /\ \A k \in 1..Len(fg.wrote) :
                 /\ fg.wrote[k].bytes =
                        IF fg.msg # <<>> /\ fg.msg[Len(fg.msg)] = "LF"
                        THEN Encode(fg.msg)
                        ELSE Encode(fg.msg) \o <<"LF">>
                 /\ fg.msg \in {<<"P">>, <<"P", "LF">>} => fg.wrote[k].bytes = <<"P", "LF">>

\* A send of "P\n" on a Connected communicator has written "P\n" and returned.
C3_Witness ==
    /\ Returned("send") /\ fg.ret
    /\ fg.msg = <<"P", "LF">>
    /\ Len(fg.wrote) = 1 /\ fg.wrote[1].bytes = <<"P", "LF">>

\* C4: send_message on a Disconnected communicator returns False in its first
\* statement, emits no event, writes nothing to any transport and leaves every
\* field of the communicators, the sockets and the threads as they were.
C4_SendWhileDisconnected ==
    [][(Idle /\ fg'.op = "send" /\ ~is_connected[fg'.c])
          => /\ fg'.pc = "done" /\ ~fg'.ret
             /\ fg'.ev = <<>> /\ fg'.wrote = <<>>
             /\ UNCHANGED <<socket, is_connected, endpoint, socks, threads, dm, queue>>]_vars

\* A send on a communicator that was connected and closed before has returned
\* failure.
C4_Witness ==
    /\ Returned("send") /\ ~fg.pre[fg.c] /\ ~fg.ret
    /\ \E s \in 1..Len(socks) : socks[s].c = fg.c /\ socks[s].st = "closed"

\* C5: for every way of splitting the inbound bytes into chunks, the lines the
\* receive loop has emitted and the partial line it keeps are those of the
\* unsplit byte sequence.
C5_FramingIgnoresChunking ==
    \A i \in 1..Len(threads) :
        threads[i].pc = "check"
            => /\ threads[i].out = SplitLines(Decode(Flatten(threads[i].rx))).lines
               /\ threads[i].buf = SplitLines(Decode(Flatten(threads[i].rx))).rest

\* C6: after the reads "A\r" and "\nB\n" the receive loop has emitted exactly
\* the Device lines "A" and "B", in that order, and after "A\r" alone none.
C6_CrLfAcrossReads ==
    \A i \in 1..Len(threads) :
        /\ threads[i].rx = << <<"A", "CR">> >> => threads[i].out = <<>>
        /\ threads[i].rx = << <<"A", "CR">>, <<"LF", "B", "LF">> >>
               => threads[i].out = << <<"A">>, <<"B">> >>

C6_Witness ==
    \E i \in 1..Len(threads) :
        /\ threads[i].rx = << <<"A", "CR">>, <<"LF", "B", "LF">> >>
        /\ threads[i].out = << <<"A">>, <<"B">> >>
        /\ threads[i].buf = <<>>

\* C7: DeviceManager.send_message hands the text to the WiFi communicator
\* whenever that is Connected (also when both are), to the Bluetooth
\* communicator when only that is Connected, and returns False without any
\* write when neither is; every write goes to a socket of the communicator chosen.
C7_SendRouting ==
    fg.op = "dm_send"
        => /\ fg.pre["esp"] => fg.routed = "esp"
           /\ (~fg.pre["esp"] /\ fg.pre["bt"]) => fg.routed = "bt"
           /\ (~fg.pre["esp"] /\ ~fg.pre["bt"])
                 => fg.routed = "none" /\ fg.pc = "done" /\ ~fg.ret /\ fg.wrote = <<>>
           /\ \A k \in 1..Len(fg.wrote) : socks[fg.wrote[k].sock].c = fg.routed

\* With both communicators Connected a DeviceManager send has written to the
\* WiFi socket and returned True.
C7_Witness ==
    /\ Returned("dm_send") /\ fg.ret
    /\ fg.pre["esp"] /\ fg.pre["bt"]
    /\ fg.routed = "esp"
    /\ Len(fg.wrote) = 1 /\ socks[fg.wrote[1].sock].c = "esp"

BluetoothView == [type |-> "Bluetooth", name |-> Label("bt", endpoint["bt"]), connected |-> TRUE]

\* The DeviceManager's slot runs for a status change of the WiFi communicator:
\* in the foreground's close_connection, or from the event loop's queue.
EspStatusSlotRuns ==
    \/ fg.pc = "cl_flag" /\ fg.c = "esp" /\ fg'.pc # "cl_flag"
    \/ Idle /\ queue # <<>> /\ Head(queue).c = "esp" /\ queue' = Tail(queue)

\* C8: whenever the WiFi communicator's disconnect is notified while the
\* Bluetooth communicator is Connected, the current-device view the
\* DeviceManager emits, and get_current_device_info, are the Bluetooth device.
C8_ViewFlipsToBluetooth ==
    [][(EspStatusSlotRuns /\ ~is_connected'["esp"] /\ is_connected'["bt"])
          => /\ dm'.view = BluetoothView'
             /\ get_current_device_info(is_connected', endpoint') = BluetoothView']_vars

\* Bluetooth connected first, WiFi second, and WiFi has been closed: the view
\* emitted is the Bluetooth device.
C8_Witness ==
    /\ Returned("close") /\ fg.c = "esp" /\ fg.pre["esp"]
    /\ Len(socks) = 2 /\ socks[1].c = "bt"
    /\ ~is_connected["esp"] /\ is_connected["bt"]
    /\ dm.view = BluetoothView

\* C9: a communicator never has two receive loops alive, a Connected one (between
\* foreground calls) has exactly one, and there are never more than two in all.
C9_OneReceiveLoop ==
    /\ \A c \in Ctrl : Cardinality(AliveOf(c)) <= 1
    /\ \A c \in Ctrl : (Idle /\ is_connected[c]) => Cardinality(AliveOf(c)) = 1
    /\ Cardinality({i \in 1..Len(threads) : Alive(i)}) <= 2

\* C10: when close_connection returns, or a connect returns failure, the
\* communicator is Disconnected and none of its receive loops is alive.
C10_NoLoopWhileDisconnected ==
    ((Returned("close") \/ (Returned("connect") /\ ~fg.ret)) /\ ~is_connected[fg.c])
        => AliveOf(fg.c) = {}

\* A connect call on communicator c is in progress: the state the source has
\* no field for, between the socket's creation and the call's return.
Connecting(c) ==
    fg.op = "connect" /\ fg.c = c
        /\ fg.pc \in {"co_conn", "co_flag", "co_emit", "co_fclose", "co_fnone"}

\* C11: in every reachable state, the intermediate ones of connect and close
\* and the state after a connect that failed while Connected included, a
\* communicator's socket is not None if and only if it is Connecting or
\* Connected.
C11_TransportIffConnected ==
    \A c \in Ctrl : (socket[c] # NoSock) <=> (is_connected[c] \/ Connecting(c))

\* C12: a connect called on a Disconnected communicator whose transport connect
\* succeeded has returned True with exactly the System message and the
\* status-changed(True, label of the endpoint) emitted, and, while the receive
\* loop it spawned is still polling, the communicator is Connected on a live
\* socket.
C12_SuccessfulConnect ==
    (Returned("connect") /\ ~fg.pre[fg.c] /\ fg.ret)
        => /\ fg.ev = <<Msg("System", <<"connected", fg.msg[1]>>),
                        Status(TRUE, Label(fg.c, fg.msg[1]))>>
           /\ Label(fg.c, fg.msg[1]) # NoLabel
           /\ threads # <<>> /\ threads[Len(threads)].c = fg.c
           /\ threads[Len(threads)].pc \in {"check", "recv", "blocked"}
                 => /\ is_connected[fg.c]
                    /\ socket[fg.c] # NoSock
                    /\ socks[socket[fg.c]].st \in {"up", "eof"}

\* C13: a send on a Connected communicator whose transport write failed has
\* returned False, has emitted the Error message and no Sent message, and has
\* closed the connection: the communicator is Disconnected, its socket is None
\* and the status-changed(False) has been emitted.
C13_SendFailureForceCloses ==
    (Returned("send") /\ fg.pre[fg.c] /\ fg.wrote = <<>>)
        => /\ ~fg.ret
           /\ fg.ev = <<Msg("Error", <<"send failed">>),
                        Msg("System", <<"disconnected">>), Status(FALSE, NoLabel)>>
           /\ \A k \in 1..Len(fg.ev) : fg.ev[k].cat # "Sent"
           /\ ~is_connected[fg.c]
           /\ socket[fg.c] = NoSock

\* A send on a Connected communicator has failed at the write and returned.
C13_Witness ==
    /\ Returned("send") /\ fg.pre[fg.c] /\ ~fg.ret /\ fg.wrote = <<>>
    /\ Len(fg.ev) = 3 /\ fg.ev[1].cat = "Error" /\ fg.ev[3] = Status(FALSE, NoLabel)
    /\ ~is_connected[fg.c] /\ socket[fg.c] = NoSock

\* A step of send_message's success path: the write, or the emit and return.
SendSuccessStep ==
    /\ fg.op = "send"
    /\ \/ fg.pc = "se_write" /\ fg'.pc = "se_emit"
       \/ fg.pc = "se_emit" /\ fg'.pc = "done"

\* C14: send_message returns True exactly when its write succeeded; it then has
\* emitted exactly one Sent message, with the stripped text, after the write;
\* its steps leave the connection as it is, and the communicator is Connected
\* at the return unless a receive loop has ended the connection meanwhile.
C14_SendSuccess ==
    /\ [](fg.op = "send"
            => /\ fg.pc = "done" => (fg.ret <=> Len(fg.wrote) = 1)
               /\ fg.pc = "se_emit" => (Len(fg.wrote) = 1 /\ fg.ev = <<>>)
               /\ (fg.pc = "done" /\ fg.ret)
                     => /\ fg.ev = <<Msg("Sent", Strip(fg.msg))>>
                        /\ fg.msg = <<"SP", "P", "LF", "LF">> => fg.ev[1].text = <<"P">>
                        /\ fg.msg = <<"P">> => fg.ev[1].text = <<"P">>
                        /\ (\A i \in 1..Len(threads) :
                                threads[i].pc \in {"check", "recv", "blocked"})
                              => is_connected[fg.c]
               /\ \A k \in 1..Len(fg.ev) : fg.ev[k].cat = "Sent" => Len(fg.wrote) = 1)
    /\ [][SendSuccessStep => UNCHANGED <<socket, is_connected, socks>>]_vars

\* A send of " P\n\n" has been written and has emitted the Sent message "P".
C14_Witness ==
    /\ Returned("send") /\ fg.ret
    /\ fg.msg = <<"SP", "P", "LF", "LF">>
    /\ Len(fg.wrote) = 1
    /\ fg.ev = <<Msg("Sent", <<"P">>)>>
    /\ is_connected[fg.c]

\* The message events among a sequence of events.
MessagesOf(events) == SelectSeq(events, LAMBDA e : e.k = "msg")

\* C15: the message events a communicator has emitted during the foreground
\* call are, unchanged, in order and once each, the last ones the DeviceManager
\* has passed on to its own observer.
C15_MessagesRelayed ==
    LET msgs == MessagesOf(fg.ev)
        n == Len(dm.relayed)
    IN  /\ n >= Len(msgs)
        /\ SubSeq(dm.relayed, n - Len(msgs) + 1, n) = msgs

\* A status-changed event has reached the DeviceManager's slot in this step:
\* emitted by the foreground call, or taken from the event loop's queue.
StatusSlotRuns ==
    \/ Len(fg'.ev) > Len(fg.ev) /\ fg'.ev[Len(fg'.ev)].k = "status"
    \/ queue # <<>> /\ queue' = Tail(queue)

\* The device kind the two communicators' states determine: WiFi first.
ExpectedKind ==
    IF is_connected["esp"] THEN "ESP8266"
    ELSE IF is_connected["bt"] THEN "Bluetooth"
    ELSE ""

\* C16: after every status-changed event of either communicator the current
\* device view of the DeviceManager is the WiFi device if the WiFi communicator
\* is Connected, else the Bluetooth device if that one is Connected, else none
\* with connected False; so it is whenever all status events have been handled.
C16_ViewIsFunctionOfStates ==
    /\ [][StatusSlotRuns
            => /\ dm'.view.type = ExpectedKind'
               /\ dm'.view.connected = (is_connected'["esp"] \/ is_connected'["bt"])
               /\ dm'.view = get_current_device_info(is_connected', endpoint')]_vars
    /\ []((Idle /\ queue = <<>> /\ dm.view # NoView)
            => /\ dm.view.type = ExpectedKind
               /\ dm.view.connected = (is_connected["esp"] \/ is_connected["bt"]))
    /\ [](get_current_device_info(is_connected, endpoint).type = ExpectedKind)

\* Bluetooth has connected while WiFi is Connected: the view is the WiFi device.
C16_Witness ==
    /\ Returned("connect") /\ fg.c = "bt" /\ fg.ret
    /\ is_connected["esp"] /\ is_connected["bt"]
    /\ dm.view.type = "ESP8266" /\ dm.view.connected

\* Both communicators are Disconnected with no socket, and the DeviceManager
\* shows no device.
AllOff ==
    /\ \A c \in Ctrl : ~is_connected[c] /\ socket[c] = NoSock
    /\ dm.view = [type |-> "", name |-> <<"none">>, connected |-> FALSE]
    /\ dm.type = "" /\ dm.name = NoLabel

\* C17: whatever the two communicators' states at the call, when
\* disconnect_all returns both are Disconnected with socket None and the
\* current device view is none; and no step of a disconnect_all made in that
\* state changes the communicators, the sockets or the view.
C17_DisconnectAll ==
    /\ [](Returned("disconnect_all")
            => /\ AllOff
               /\ get_current_device_info(is_connected, endpoint).connected = FALSE)
    /\ [][(fg'.op = "disconnect_all" /\ fg' # fg /\ AllOff)
            => UNCHANGED <<socket, is_connected, endpoint, socks, dm>>]_vars

\* disconnect_all, called with both communicators Connected, has returned.
C17_Witness ==
    /\ Returned("disconnect_all")
    /\ fg.pre["esp"] /\ fg.pre["bt"]
    /\ Len(fg.ev) = 4
    /\ AllOff

\* A Bluetooth connect, or a scan, is called in this step.
BluetoothRequest ==
    \/ fg'.op = "connect" /\ fg'.c = "bt" /\ fg' # fg
    \/ Len(scans') > Len(scans)

\* C18: on a host without Bluetooth no Bluetooth socket and no receive or
\* scan thread ever exists, the Bluetooth communicator stays Disconnected with
\* its endpoint unset, a Bluetooth connect returns False at once, a scan ends
\* at once with an empty device list, neither touches any field of the WiFi
\* communicator, and a WiFi connect can still be made.
C18_BluetoothUnavailable ==
    /\ [](~bt_available
            => /\ socket["bt"] = NoSock /\ ~is_connected["bt"] /\ endpoint["bt"] = ""
               /\ \A s \in 1..Len(socks) : socks[s].c # "bt"
               /\ \A i \in 1..Len(threads) : threads[i].c # "bt"
               /\ \A j \in 1..Len(scans) :
                     /\ ~scans[j].thread /\ scans[j].pc = "done"
                     /\ scans[j].ev[1] = DevicesFound(<<>>)
               /\ (fg.op = "connect" /\ fg.c = "bt")
                     => (fg.pc = "done" /\ ~fg.ret /\ fg.ev = UnavailableEvents)
               /\ (Idle /\ socks = <<>>)
                     => ENABLED establish_connection("esp", "h1"))
    /\ [][(~bt_available /\ BluetoothRequest)
            => UNCHANGED <<socket, is_connected, endpoint, socks, threads>>]_vars

\* Without Bluetooth, after a scan, the WiFi communicator has connected.
C18_Witness ==
    /\ ~bt_available
    /\ Len(scans) >= 1
    /\ Returned("connect") /\ fg.c = "esp" /\ fg.ret
    /\ is_connected["esp"]

\* The devices-found events among a scan's events.
FoundOf(events) == SelectSeq(events, LAMBDA e : e.k = "found")

\* C19: every scan request that has ended has produced exactly one
\* devices-found event: with an empty list and one informational message when
\* Bluetooth is unavailable, and with a list also when the discovery failed.
C19_ScanYieldsOneResult ==
    \A j \in 1..Len(scans) :
        scans[j].pc = "done"
            => /\ Len(FoundOf(scans[j].ev)) = 1
               /\ ~bt_available
                     => /\ FoundOf(scans[j].ev) = <<DevicesFound(<<>>)>>
                        /\ Len(MessagesOf(scans[j].ev)) = 1

\* The Error messages among a sequence of events.
ErrorsOf(events) == SelectSeq(events, LAMBDA e : e.k = "msg" /\ e.cat = "Error")

\* Every message event of the sequence carries a timestamp and a category.
Stamped(events) ==
    \A k \in 1..Len(events) : events[k].k = "msg" => (events[k].ts /\ events[k].cat # "")

\* C20: every failure yields exactly one explanatory message event, with a
\* timestamp and a category: a failed connect and a failed send one Error
\* message each, an unavailable Bluetooth connect and a failed or unavailable
\* scan one message each, and a connection that broke under a send and under
\* its receive loop one Error message for both.
C20_OneStampedEventPerFailure ==
    /\ Stamped(fg.ev)
    /\ \A i \in 1..Len(threads) : Stamped(threads[i].ev)
    /\ \A j \in 1..Len(scans) : Stamped(scans[j].ev)
    /\ (Returned("connect") /\ ~fg.ret) => Len(MessagesOf(fg.ev)) = 1
    /\ (Returned("send") /\ fg.pre[fg.c] /\ ~fg.ret) => Len(ErrorsOf(fg.ev)) = 1
    /\ \A j \in 1..Len(scans) :
          (scans[j].pc = "done" /\ (~scans[j].thread \/ FoundOf(scans[j].ev) = <<>>))
              => Len(MessagesOf(scans[j].ev)) = 1
    /\ \A i \in 1..Len(threads) :
          (fg.op = "send" /\ threads[i].c = fg.c)
              => Len(ErrorsOf(fg.ev)) + Len(ErrorsOf(threads[i].ev)) <= 1

\* C21: a receive loop that observes EOF, or a read error that is no timeout,
\* emits exactly one Error message if the communicator is Connected at that
\* moment and none if it is not, and when it leaves with the communicator
\* Connected it runs close_connection.
C21_ErrorOnEofOrReadError ==
    [][\A i \in 1..Len(threads) :
          /\ ((threads[i].pc = "blocked" \/ threads[i].pc = "err") /\ threads'[i].pc = "exit")
                => Len(ErrorsOf(threads'[i].ev))
                     = Len(ErrorsOf(threads[i].ev))
                         + (IF is_connected[threads[i].c] THEN 1 ELSE 0)
          /\ (threads[i].pc = "exit" /\ threads'[i].pc # "exit" /\ is_connected[threads[i].c])
                => threads'[i].pc = "cl_close"]_vars

\* C22: a recv that times out on a live socket, of either communicator, emits
\* nothing, leaves is_connected, the socket and the line buffer as they are, and
\* sends the loop back to its condition.
C22_TimeoutIsNoError ==
    [][\A i \in 1..Len(threads) :
          (/\ threads[i].pc = "blocked"
           /\ socks[threads[i].sock].st = "up"
           /\ threads'[i].pc # "blocked"
           /\ threads'[i].rx = threads[i].rx)
              => /\ threads'[i].pc = "check"
                 /\ threads'[i].ev = threads[i].ev
                 /\ threads'[i].buf = threads[i].buf
                 /\ UNCHANGED <<socket, is_connected, socks>>]_vars

\* C23: a receive loop reads only from the socket of the connection it was
\* started for, emits its Error message only about that connection, and its
\* close_connection closes no other connection's socket.
C23_LoopKeepsToItsConnection ==
    /\ [](\A i \in 1..Len(threads) :
            threads[i].pc = "blocked" => threads[i].sock = threads[i].own)
    /\ [][\A i \in 1..Len(threads) :
            /\ (threads[i].pc = "cl_close" /\ threads'[i].pc # "cl_close")
                  => socket[threads[i].c] \in {NoSock, threads[i].own}
            /\ (threads[i].pc = "err" /\ threads'[i].ev # threads[i].ev)
                  => socket[threads[i].c] \in {NoSock, threads[i].own}]_vars

\* The status-changed(False) events among a sequence of events.
DisconnectsOf(events) == SelectSeq(events, LAMBDA e : e.k = "status" /\ ~e.on)

\* The status signals of communicator c waiting in the event loop's queue.
QueuedOf(c) == SelectSeq(queue, LAMBDA q : q.c = c)

\* C24: for a communicator connected once, a close_connection or a failing
\* send_message called while it was Connected, together with the receive loop's
\* own exit, emits the System disconnect message and the
\* status-changed(False) once in all, in every interleaving.
C24_OneDisconnectPerTransition ==
    (fg.op \in {"close", "send"} /\ fg.pre[fg.c] /\ Len(socks) = 1)
        => Len(DisconnectsOf(fg.ev)) + Len(QueuedOf(fg.c)) <= 1

\* C25: close_connection has set is_connected to False before the socket is
\* closed, so a Connected communicator's socket is never a closed one, and a
\* receive loop whose recv failed on the closed socket finds is_connected False.
C25_FlagBeforeTeardown ==
    /\ \A c \in Ctrl :
          (is_connected[c] /\ socket[c] # NoSock) => socks[socket[c]].st # "closed"
    /\ \A i \in 1..Len(threads) :
          (threads[i].pc = "err" /\ Len(socks) = 1 /\ socks[1].st = "closed")
              => ~is_connected[threads[i].c]

\* C26: once close_connection, called on a Connected communicator, has
\* returned, every receive loop of that communicator alive at that moment
\* eventually terminates, whatever the foreground does afterwards.
C26_LoopTerminatesAfterClose ==
    \A i \in 1..MaxConn :
        (/\ Returned("close") /\ fg.pre[fg.c]
         /\ i <= Len(threads) /\ threads[i].c = fg.c /\ Alive(i))
            ~> (i <= Len(threads) /\ ~Alive(i))

\* Communicator c is Connected on socket s, which the device has closed or
\* which has broken.
RemoteEnded(c, s) ==
    /\ s <= Len(socks)
    /\ is_connected[c] /\ socket[c] = s
    /\ socks[s].st \in {"eof", "reset"}

\* C27: when the device closes a Connected communicator's connection, or the
\* connection breaks, then with no foreground call needed the communicator
\* eventually is Disconnected with its socket released (socket None), unless a
\* later connect has put another socket in its place meanwhile.
C27_RemoteCloseDisconnects ==
    \A c \in Ctrl : \A s \in 1..MaxConn :
        RemoteEnded(c, s)
            ~> \/ ~is_connected[c] /\ socket[c] = NoSock
               \/ socket[c] \notin {s, NoSock}

\* The complete non-empty lines among the bytes receive loop i has read, in the
\* order they arrived.
LinesReceived(i) == SplitLines(Decode(Flatten(threads[i].rx))).lines

\* C28: whenever the receive loop is back at its loop condition it has emitted
\* one Device event for each complete non-empty line received so far, in the
\* order the lines arrived.  (Sent events: each send_message emits its own
\* before it returns, C14.)
C28_EventsInReceiveOrder ==
    \A i \in 1..Len(threads) :
        threads[i].pc = "check"
            => /\ Len(threads[i].out) = Len(LinesReceived(i))
               /\ \A k \in 1..Len(threads[i].out) :
                      k <= Len(LinesReceived(i)) => threads[i].out[k] = LinesReceived(i)[k]

\* C29: while establish_connection has not yet emitted the "connected" message
\* and status-changed(True) of the connection it has made, the receive loop of
\* that connection has emitted no Device message, no Error and no
\* status-changed(False).
C29_ConnectedEventsFirst ==
    (fg.op = "connect" /\ fg.pc = "co_emit")
        => /\ threads[Len(threads)].out = <<>>
           /\ threads[Len(threads)].ev = <<>>
           /\ QueuedOf(fg.c) = <<>>

\* The device name the two communicators' states determine: WiFi first, empty
\* when neither is Connected.
ExpectedName ==
    IF is_connected["esp"] THEN Label("esp", endpoint["esp"])
    ELSE IF is_connected["bt"] THEN Label("bt", endpoint["bt"])
    ELSE NoLabel

\* C30: whenever no call is running and every status event has been handled,
\* DeviceManager.device_type and device_name name the WiFi device if the WiFi
\* communicator is Connected, else the Bluetooth device if that one is
\* Connected, and are empty if neither is.
C30_DeviceTypeAgreesWithInfo ==
    (Idle /\ queue = <<>>)
        => /\ dm.type = ExpectedKind
           /\ dm.type = get_current_device_info(is_connected, endpoint).type
           /\ dm.name = ExpectedName

\* C31: whenever the receive loop is back at its loop condition, no Device
\* event is empty and the buffer holds no newline (every line, the empty ones
\* too, is consumed through its delimiter); a blank line "SP LF" alone gives no
\* event and leaves nothing behind, and the line after a blank or an empty line
\* is emitted as it is.
C31_EmptyLinesConsumed ==
    \A i \in 1..Len(threads) :
        threads[i].pc = "check"
            => /\ \A k \in 1..Len(threads[i].out) : threads[i].out[k] # <<>>
               /\ ~HasNewline(threads[i].buf)
               /\ threads[i].rx = << <<"SP", "LF">> >>
                     => threads[i].out = <<>> /\ threads[i].buf = <<>>
               /\ threads[i].rx = << <<"SP", "LF">>, <<"A", "LF">> >>
                     => threads[i].out = << <<"A">> >> /\ threads[i].buf = <<>>
               /\ threads[i].rx = << <<"LF", "B", "LF">> >>
                     => threads[i].out = << <<"B">> >> /\ threads[i].buf = <<>>

\* After the blank line "SP LF" and the line "A LF" the loop has emitted "A" only.
C31_Witness ==
    \E i \in 1..Len(threads) :
        /\ threads[i].pc = "check"
        /\ threads[i].rx = << <<"SP", "LF">>, <<"A", "LF">> >>
        /\ threads[i].out = << <<"A">> >>
        /\ threads[i].buf = <<>>

\* C32: the text of a Device event is the line between two newlines with a
\* trailing carriage return removed and nothing else: after the reads "B" and
\* "SP LF" the event is "B SP", the blank kept; after "A CR" and "LF B LF" the
\* events are "A" and "B".
C32_OnlyCarriageReturnRemoved ==
    \A i \in 1..Len(threads) :
        threads[i].pc = "check"
            => /\ threads[i].rx = << <<"B">>, <<"SP", "LF">> >>
                     => threads[i].out = << <<"B", "SP">> >>
               /\ threads[i].rx = << <<"A", "CR">>, <<"LF", "B", "LF">> >>
                     => threads[i].out = << <<"A">>, <<"B">> >>

\* C33: an invalid byte sequence in a read is replaced, not dropped, and never
\* ends the receive loop or closes the connection: no non-empty read decodes
\* to the empty text, no read makes the loop leave (the device never closes
\* here), and the line made of a lone continuation byte, or of a two-byte
\* character split over two reads, still gives a Device event.
C33_InvalidBytesReplaced ==
    \A i \in 1..Len(threads) :
        /\ \A k \in 1..Len(threads[i].rx) : Decode(threads[i].rx[k]) # <<>>
        /\ threads[i].pc \notin {"exit", "cl_close", "cl_none", "cl_flag"}
        /\ threads[i].pc = "check"
            => /\ threads[i].rx = << <<"LO", "LF">> >> => Len(threads[i].out) = 1
               /\ threads[i].rx = << <<"A", "LF", "HI">>, <<"LO", "LF">> >>
                     => Len(threads[i].out) = 2

\* The receive loop i is inside close_connection.
InClosePath(i) == threads[i].pc \in {"cl_close", "cl_none", "cl_flag"}

\* C34: a recv that returns a chunk or times out on a live socket leaves
\* is_connected, socket and endpoint as they are and sends the loop back to
\* its condition, not to its end and the close path; and no step of a receive
\* loop outside close_connection changes is_connected, socket or endpoint.
C34_LoopChangesStateOnlyByClose ==
    [][\A i \in 1..Len(threads) :
          /\ (/\ threads[i].pc = "blocked"
              /\ socks[threads[i].sock].st = "up"
              /\ threads'[i].pc # "blocked")
                 => /\ threads'[i].pc = "check"
                    /\ UNCHANGED <<socket, is_connected, endpoint>>
          /\ (threads'[i] # threads[i] /\ ~InClosePath(i))
                 => UNCHANGED <<socket, is_connected, endpoint>>]_vars

\* C35: with a first connection whose device sends "B" and never a newline,
\* and later connections whose devices send the line "A", every Device event
\* is "A": the unfinished "B" is emitted neither at the disconnect nor in
\* front of a line of the next connection.
C35_BufferDiesWithConnection ==
    \A i \in 1..Len(threads) :
        \A k \in 1..Len(threads[i].out) : threads[i].out[k] = <<"A">>

\* A DeviceManager send made with both communicators Connected has returned
\* after its write failed.
DmSendFailed ==
    /\ Returned("dm_send")
    /\ fg.pre["esp"] /\ fg.pre["bt"]
    /\ fg.ev # <<>> /\ fg.ev[1] = Msg("Error", <<"send failed">>)

\* C36: a DeviceManager send writes at most once and only to the communicator
\* it chose; when it was made with both Connected and the write failed, it has
\* returned False with nothing written, the WiFi communicator is Disconnected
\* with socket None, and no step of the call has touched the Bluetooth
\* communicator's state or sockets.
C36_NoRetryOnOtherTransport ==
    /\ [](fg.op = "dm_send"
            => /\ Len(fg.wrote) <= 1
               /\ \A k \in 1..Len(fg.wrote) : socks[fg.wrote[k].sock].c = fg.routed)
    /\ [](DmSendFailed
            => /\ ~fg.ret /\ fg.routed = "esp" /\ fg.c = "esp" /\ fg.wrote = <<>>
               /\ ~is_connected["esp"] /\ socket["esp"] = NoSock)
    /\ [][(fg.op = "dm_send" /\ fg.routed = "esp" /\ fg' # fg /\ fg'.op = "dm_send")
            => /\ is_connected'["bt"] = is_connected["bt"]
               /\ socket'["bt"] = socket["bt"]
               /\ \A s \in 1..Len(socks) : socks[s].c = "bt" => socks'[s] = socks[s]]_vars

\* Both were Connected, the WiFi write failed: the call has returned False, the
\* WiFi communicator is closed and the Bluetooth one still Connected.
C36_Witness ==
    /\ DmSendFailed /\ ~fg.ret /\ fg.wrote = <<>>
    /\ ~is_connected["esp"] /\ socket["esp"] = NoSock
    /\ is_connected["bt"] /\ socket["bt"] # NoSock /\ socks[socket["bt"]].st = "up"

\* The transport of the communicator the foreground call is on has been torn
\* down under it: self.socket is None, or the socket is closed.
TornDown ==
    \/ socket[fg.c] = NoSock
    \/ socks[socket[fg.c]].st = "closed"

\* C37: a send whose write meets a transport torn down by the receive loop in
\* the meantime takes the failure path (Error message, close_connection,
\* return False) instead of letting the exception out; a send returns True
\* only with its bytes written; and when the send has returned and the
\* receive loop has finished, the communicator is Disconnected with socket None.
C37_SendRacingTeardown ==
    /\ [][(fg.op = "send" /\ fg.pc = "se_write" /\ fg' # fg /\ TornDown)
            => /\ fg'.pc = "cl_close" /\ ~fg'.ret /\ fg'.wrote = <<>>
               /\ fg'.ev = <<Msg("Error", <<"send failed">>)>>]_vars
    /\ [](Returned("send") => (fg.ret => Len(fg.wrote) = 1))
    /\ []((/\ Returned("send") /\ fg.pre[fg.c]
           /\ \A i \in 1..Len(threads) : ~Alive(i))
              => ~is_connected[fg.c] /\ socket[fg.c] = NoSock)

\* A send and the receive loop have both run close_connection on the same
\* connection: the send has returned False with nothing written, its own
\* status-changed(False) emitted, and the loop's waits in the event loop.
C37_Witness ==
    /\ Returned("send") /\ fg.pre[fg.c] /\ ~fg.ret /\ fg.wrote = <<>>
    /\ Len(DisconnectsOf(fg.ev)) = 1
    /\ QueuedOf(fg.c) # <<>>
    /\ \A i \in 1..Len(threads) : ~Alive(i)
    /\ ~is_connected[fg.c] /\ socket[fg.c] = NoSock

====
